---------------------------- MODULE Spec2Model ----------------------------
(***************************************************************************)
(* Model of the AMT worker monitor (mt_worker_monitor.py, utils.py).       *)
(*                                                                         *)
(* MTWorkerMonitor.run polls the marketplace: every cycle it re-reads the  *)
(* workers holding the blacklist qualification, re-reads the HITs of the   *)
(* tracked batch, lists the assignments of every such HIT, counts them per *)
(* worker and grants the qualification to a worker whose count reaches     *)
(* max_hits and who is not yet in the (locally extended) blacklist.        *)
(*                                                                         *)
(* Strings are sequences of characters; the literal "BatchId:" of the      *)
(* regular expression is one symbol (it cannot overlap itself, so a text   *)
(* splits into its occurrences and the other characters in one way only).  *)
(***************************************************************************)
EXTENDS Integers, Sequences, FiniteSets, TLC

(***************************************************************************)
(* Bounds of the model.                                                    *)
(***************************************************************************)
MaxAnnLen == 4
MaxHITs == 2
MaxAssign == 2
MaxPageSize == 2
MaxThreshold == 2
MaxCycles == 2

(***************************************************************************)
(* A response without the NEXT_TOKEN key carries NoToken; re.search that   *)
(* finds nothing returns None.                                             *)
(***************************************************************************)
NoToken == 0
None == <<>>

Workers == {"A", "B", "C"}
Pattern == <<"A", "A", "B", "A", "C", "B">>

Min(a, b) == IF a < b THEN a ELSE b
ToSet(s) == {s[i] : i \in 1..Len(s)}

(***************************************************************************)
(* utils.batch_id_match                                                    *)
(***************************************************************************)
BatchIdLit == "BatchId:"
Digit == {"0", "1", "2", "3", "4", "5", "6", "7", "8", "9"}
DigitVal(c) ==
    CASE c = "0" -> 0 [] c = "1" -> 1 [] c = "2" -> 2 [] c = "3" -> 3
      [] c = "4" -> 4 [] c = "5" -> 5 [] c = "6" -> 6 [] c = "7" -> 7
      [] c = "8" -> 8 [] c = "9" -> 9

\* \d+ : the greedy run of digits that starts at position j; its last index.
RECURSIVE DigitRunEnd(_, _)
DigitRunEndOne(s, j) == j
DigitRunEnd(s, j) ==
    IF j + 1 <= Len(s) /\ s[j + 1] \in Digit THEN DigitRunEnd(s, j + 1) ELSE j

\* r'BatchId:\d+' matches at position i.
MatchAt(s, i) == s[i] = BatchIdLit /\ i + 1 <= Len(s) /\ s[i + 1] \in Digit

\* re.search scans from the left and stops at the first position that matches.
RECURSIVE SearchFrom(_, _)
SearchFrom(s, i) ==
    IF i > Len(s) THEN 0
    ELSE IF MatchAt(s, i) THEN i
    ELSE SearchFrom(s, i + 1)

\* re.search(r'BatchId:\d+', req_ann): the matched text (.group(0)), or None.
re_search(req_ann) ==
    LET i == SearchFrom(req_ann, 1)
    IN  IF i = 0 THEN None ELSE SubSeq(req_ann, i, DigitRunEnd(req_ann, i + 1))

\* text.split(":")[-1]: what follows the last colon of the text.
RECURSIVE LastColon(_, _)
LastColon(m, k) ==
    IF k = 0 THEN 0
    ELSE IF m[k] = BatchIdLit \/ m[k] = ":" THEN k
    ELSE LastColon(m, k - 1)
split_last(m) == SubSeq(m, LastColon(m, Len(m)) + 1, Len(m))

\* int(text) of a decimal numeral.
RECURSIVE int(_)
int(ds) ==
    IF ds = <<>> THEN 0
    ELSE 10 * int(SubSeq(ds, 1, Len(ds) - 1)) + DigitVal(ds[Len(ds)])

\* None.group(0) raises AttributeError.
batch_id_match_raises(hit) == re_search(hit.RequesterAnnotation) = None

\* The value batch_id_match returns when it does not raise.
batch_id_match(hit, batch_id) ==
    LET hit_batch_id == int(split_last(re_search(hit.RequesterAnnotation)))
    IN  hit_batch_id = batch_id


(***************************************************************************)
(* State.  The marketplace (the boto3 "mturk" client's account state), the *)
(* monitor's fields and the locals of run and of the two fetch methods,    *)
(* and what an observer of the marketplace calls has seen in this cycle.   *)
(***************************************************************************)
VARIABLES
    \* marketplace
    hitList,            \* the account's HITs, in listing order
    assignmentsOf,      \* HITId -> its Submitted/Approved assignments, in order
    qualified,          \* workers holding the qualification (Granted), in order
    pageSize,           \* results per page of a listing
    hitTrailing,        \* list_hits ends with an empty page that has no token
    qualTrailing,       \* the same for list_workers_with_qualification_type
    \* MTWorkerMonitor
    max_hits, batch_id,
    pc,                 \* where run() is
    kwargs,             \* fetch_workers_with_qualification: kwargs['NextToken']
    hits_kwargs,        \* fetch_and_filter_hits: kwargs['NextToken']
    worker_ids,         \* fetch_workers_with_qualification: worker_ids
    coll,               \* fetch_and_filter_hits: coll
    init_blacklisted_workers, blacklisted_workers, hits, worker_counter,
    hit_idx,            \* position of "for hit in hits"
    assignments,        \* resp[ASSIGNMENTS] of the HIT being processed
    asg_idx,            \* position of "for assignment in assignments"
    \* observations
    cycle,              \* number of the current cycle (stops counting at MaxCycles)
    grantCalls,         \* worker -> associate_qualification_with_worker calls, this cycle
    listCalls,          \* list_assignments_for_hit calls, this cycle
    warned,             \* warnings.warn was called, this cycle
    holdersAtStart,     \* workers holding the qualification when the cycle began
    lastFetch, prevFetch, \* results of the last two fetch_workers_with_qualification
    nFetches,           \* how many such calls have returned (0, 1, 2 = two or more)
    grantSinceLast,     \* a grant was issued after the last such call returned
    grantBetween,       \* a grant was issued between the last two such calls
    everGranted,        \* workers granted the qualification in an earlier cycle
    failed,             \* a marketplace call has raised
    \* a single call of batch_id_match (SpecBatch)
    probe_hit, probe_ret

marketVars == <<hitList, assignmentsOf, qualified, pageSize, hitTrailing,
                qualTrailing>>
configVars == <<max_hits, batch_id>>
runVars == <<pc, kwargs, hits_kwargs, worker_ids, coll, init_blacklisted_workers,
             blacklisted_workers, hits, worker_counter, hit_idx, assignments,
             asg_idx>>
obsVars == <<cycle, grantCalls, listCalls, warned, holdersAtStart, lastFetch,
             prevFetch, nFetches, grantSinceLast, grantBetween, everGranted,
             failed>>
probeVars == <<probe_hit, probe_ret>>
vars == <<marketVars, configVars, runVars, obsVars, probeVars>>

(***************************************************************************)
(* The marketplace's answers.  A listing is cut into pages; every page but *)
(* the last carries a NextToken (here: the number of the next page).       *)
(***************************************************************************)
RECURSIVE Chunks(_, _)
Chunks(s, n) ==
    IF Len(s) = 0 THEN <<>>
    ELSE IF Len(s) <= n THEN <<s>>
    ELSE <<SubSeq(s, 1, n)>> \o Chunks(SubSeq(s, n + 1, Len(s)), n)

Pages(list, size, trailing) ==
    IF list = <<>> THEN << <<>> >>
    ELSE IF trailing THEN Append(Chunks(list, size), <<>>)
    ELSE Chunks(list, size)

hitPages == Pages(hitList, pageSize, hitTrailing)
qualPages == Pages(qualified, pageSize, qualTrailing)

PageOf(pages, token) ==
    LET k == IF token = NoToken THEN 1 ELSE token
    IN  [items |-> pages[k],
         NextToken |-> IF k < Len(pages) THEN k + 1 ELSE NoToken]

\* self.mt.list_hits(**kwargs)
list_hits(token) == PageOf(hitPages, token)

\* self.mt.list_workers_with_qualification_type(**kwargs)
list_workers_with_qualification_type(token) == PageOf(qualPages, token)

\* self.mt.list_assignments_for_hit(HITId, AssignmentStatuses)[ASSIGNMENTS]
list_assignments_for_hit(hit_id) == assignmentsOf[hit_id]

\* self.mt.associate_qualification_with_worker: the holders afterwards.
associate_qualification_with_worker(worker_id) ==
    IF worker_id \in ToSet(qualified) THEN qualified
    ELSE Append(qualified, worker_id)

(***************************************************************************)
(* Initial states: a marketplace account and the monitor's configuration.  *)
(***************************************************************************)
InBatchAnn == <<BatchIdLit, "4", "2", ";">>
OtherAnn == <<BatchIdLit, "4", ";">>
BadAnn == <<"B", "a", "t", "c", "h">>

\* Assignment sequences: at most MaxAssign workers of Pattern, read from its
\* first or from its third position.
AsgChoices ==
    {SubSeq(Pattern, i, i + n - 1) : i \in {1, 3}, n \in 0..Min(MaxAssign, 4)}

HitChoices ==
    {[ann |-> InBatchAnn, asg |-> a] : a \in AsgChoices}
    \cup {[ann |-> x, asg |-> SubSeq(Pattern, 1, Min(MaxAssign, Len(Pattern)))] :
            x \in {OtherAnn, BadAnn}}

HitsOf(proto) ==
    [i \in 1..Len(proto) |-> [HITId |-> i, RequesterAnnotation |-> proto[i].ann]]
AssignmentsOf(proto) ==
    [i \in 1..Len(proto) |->
        [j \in 1..Len(proto[i].asg) |-> [WorkerId |-> proto[i].asg[j]]]]

ZeroCount == [w \in Workers |-> 0]

InitRun ==
    /\ pc = "init_fetch"
    /\ kwargs = NoToken
    /\ hits_kwargs = NoToken
    /\ worker_ids = <<>>
    /\ coll = <<>>
    /\ init_blacklisted_workers = <<>>
    /\ blacklisted_workers = {}
    /\ hits = <<>>
    /\ worker_counter = ZeroCount
    /\ hit_idx = 0
    /\ assignments = <<>>
    /\ asg_idx = 0
    /\ cycle = 0
    /\ grantCalls = ZeroCount
    /\ listCalls = 0
    /\ warned = FALSE
    /\ holdersAtStart = ToSet(qualified)
    /\ lastFetch = <<>>
    /\ prevFetch = <<>>
    /\ nFetches = 0
    /\ grantSinceLast = FALSE
    /\ grantBetween = FALSE
    /\ everGranted = {}
    /\ failed = FALSE

NoProbe ==
    /\ probe_hit = [RequesterAnnotation |-> <<>>]
    /\ probe_ret = "idle"

\* Every small account.
InitSmall ==
    /\ \E proto \in UNION {[1..n -> HitChoices] : n \in 0..MaxHITs} :
          /\ hitList = HitsOf(proto)
          /\ assignmentsOf = AssignmentsOf(proto)
    /\ pageSize \in 1..MaxPageSize
    /\ hitTrailing \in (IF hitList = <<>> THEN {FALSE} ELSE BOOLEAN)
    /\ qualified \in {<<>>, <<"A">>}
    /\ qualTrailing \in BOOLEAN
    /\ max_hits \in 1..MaxThreshold
    /\ batch_id = int(<<"4", "2">>)

\* The account of the end-to-end scenario: one HIT of the batch whose
\* assignments come from workers A, A, B, A, C, B; max_hits = 3.
InitScenario ==
    /\ hitList = HitsOf(<<[ann |-> InBatchAnn, asg |-> Pattern]>>)
    /\ assignmentsOf = AssignmentsOf(<<[ann |-> InBatchAnn, asg |-> Pattern]>>)
    /\ pageSize = 1
    /\ hitTrailing \in BOOLEAN
    /\ qualified \in {<<>>, <<"A">>}
    /\ qualTrailing \in BOOLEAN
    /\ max_hits = 3
    /\ batch_id = int(<<"4", "2">>)

Init ==
    /\ InitSmall \/ InitScenario
    /\ InitRun
    /\ NoProbe

(***************************************************************************)
(* fetch_workers_with_qualification, one marketplace call per step.        *)
(***************************************************************************)
\* kwargs = {'Status': ..., 'QualificationTypeId': ...}: no NextToken yet.
StaleKwargs == kwargs
NewKwargs == NoToken

\* worker_ids = [] when the method is entered.
NewWorkerIds == <<>>

\* worker_ids += [w[WORKER_ID] for w in workers]
FetchWorkersPage ==
    /\ pc \in {"init_fetch", "cycle_fetch"}
    /\ LET resp == list_workers_with_qualification_type(kwargs)
       IN  /\ resp.NextToken # NoToken
           /\ kwargs' = resp.NextToken
           /\ worker_ids' = worker_ids \o resp.items
    /\ UNCHANGED <<marketVars, configVars, probeVars, obsVars>>
    /\ UNCHANGED <<pc, coll, init_blacklisted_workers, blacklisted_workers, hits,
                   worker_counter, hit_idx, assignments, asg_idx>>
    /\ UNCHANGED hits_kwargs

\* What an observer records when fetch_workers_with_qualification returns.
FetchReturned ==
    /\ prevFetch' = lastFetch
    /\ lastFetch' = worker_ids
    /\ nFetches' = Min(nFetches + 1, 2)
    /\ grantBetween' = grantSinceLast
    /\ grantSinceLast' = FALSE

\* The first cycle begins / the next cycle begins.
CycleBegins ==
    /\ cycle' = Min(cycle + 1, MaxCycles)
    /\ grantCalls' = ZeroCount
    /\ listCalls' = 0
    /\ warned' = FALSE
    /\ holdersAtStart' = ToSet(qualified)
    /\ everGranted' = everGranted \cup {w \in Workers : grantCalls[w] > 0}

\* run, lines 59-67: the startup fetch returns; its result is only logged.
FetchWorkersReturnInit ==
    /\ pc = "init_fetch"
    /\ list_workers_with_qualification_type(kwargs).NextToken = NoToken
    /\ init_blacklisted_workers' = worker_ids
    /\ pc' = "cycle_fetch"
    /\ kwargs' = NewKwargs
    /\ worker_ids' = NewWorkerIds
    /\ FetchReturned
    /\ CycleBegins
    /\ UNCHANGED <<marketVars, configVars, probeVars>>
    /\ UNCHANGED <<coll, blacklisted_workers, hits, worker_counter, hit_idx,
                   assignments, asg_idx>>
    /\ UNCHANGED hits_kwargs
    /\ UNCHANGED failed

\* blacklisted_workers = set(self.fetch_workers_with_qualification())
CachedBlacklist(ids) == blacklisted_workers \cup ToSet(ids)
NewBlacklist(ids) == ToSet(ids)

\* run, line 69: blacklisted_workers = set(...); line 70 enters the HIT fetch.
FetchWorkersReturnCycle ==
    /\ pc = "cycle_fetch"
    /\ list_workers_with_qualification_type(kwargs).NextToken = NoToken
    /\ blacklisted_workers' = NewBlacklist(worker_ids)
    /\ pc' = "fetch_hits"
    /\ hits_kwargs' = NoToken
    /\ coll' = <<>>
    /\ FetchReturned
    /\ UNCHANGED <<marketVars, configVars, probeVars>>
    /\ UNCHANGED <<worker_ids, init_blacklisted_workers, hits, worker_counter,
                   hit_idx, assignments, asg_idx>>
    /\ UNCHANGED <<cycle, grantCalls, listCalls, warned, holdersAtStart,
                   everGranted>>
    /\ UNCHANGED kwargs
    /\ UNCHANGED failed

(***************************************************************************)
(* fetch_and_filter_hits, one marketplace call per step.                   *)
(***************************************************************************)
\* [hit for hit in hits if batch_id_match(hit, self.batch_id)]
FilterPage(page) == SelectSeq(page, LAMBDA hit : batch_id_match(hit, batch_id))

PageRaises(page) == \E i \in 1..Len(page) : batch_id_match_raises(page[i])

FetchHitsPage ==
    /\ pc = "fetch_hits"
    /\ LET resp == list_hits(hits_kwargs)
       IN  /\ resp.NextToken # NoToken
           /\ ~PageRaises(resp.items)
           /\ hits_kwargs' = resp.NextToken
           /\ coll' = coll \o FilterPage(resp.items)
    /\ UNCHANGED <<marketVars, configVars, probeVars, obsVars>>
    /\ UNCHANGED <<pc, worker_ids, init_blacklisted_workers, blacklisted_workers,
                   hits, worker_counter, hit_idx, assignments, asg_idx>>
    /\ UNCHANGED kwargs

\* batch_id_match raises on a HIT of the page: nothing catches it.
FetchHitsRaise ==
    /\ pc = "fetch_hits"
    /\ LET resp == list_hits(hits_kwargs)
       IN  /\ resp.NextToken # NoToken
           /\ PageRaises(resp.items)
    /\ pc' = "crashed"
    /\ UNCHANGED <<marketVars, configVars, probeVars, obsVars>>
    /\ UNCHANGED <<kwargs, worker_ids, coll, init_blacklisted_workers,
                   blacklisted_workers, hits, worker_counter, hit_idx,
                   assignments, asg_idx>>
    /\ UNCHANGED hits_kwargs

\* The response has no NextToken: break, return coll (run, line 70).
FetchHitsReturn ==
    /\ pc = "fetch_hits"
    /\ list_hits(hits_kwargs).NextToken = NoToken
    /\ hits' = coll
    /\ pc' = "check_hits"
    /\ UNCHANGED <<marketVars, configVars, probeVars, obsVars>>
    /\ UNCHANGED <<kwargs, worker_ids, coll, init_blacklisted_workers,
                   blacklisted_workers, worker_counter, hit_idx, assignments,
                   asg_idx>>
    /\ UNCHANGED hits_kwargs

(***************************************************************************)
(* run, lines 71-94: the warning, the tally and the sleep.                 *)
(***************************************************************************)
\* len(hits) == 0
WarnIfAny(hs) == Len(hs) > 0
NoHitsFound(hs) == Len(hs) = 0

\* worker_counter = Counter()
KeepCounter == worker_counter
NewCounter == ZeroCount

\* Lines 71-75.  With no HIT the for loop has no iteration: line 94 is next.
CheckHits ==
    /\ pc = "check_hits"
    /\ warned' = NoHitsFound(hits)
    /\ worker_counter' = NewCounter
    /\ hit_idx' = 1
    /\ pc' = IF Len(hits) = 0 THEN "sleep" ELSE "for_hit"
    /\ UNCHANGED <<marketVars, configVars, probeVars>>
    /\ UNCHANGED <<kwargs, worker_ids, coll, init_blacklisted_workers,
                   blacklisted_workers, hits, assignments, asg_idx>>
    /\ UNCHANGED <<cycle, grantCalls, listCalls, holdersAtStart, lastFetch,
                   prevFetch, nFetches, grantSinceLast, grantBetween,
                   everGranted>>
    /\ UNCHANGED hits_kwargs
    /\ UNCHANGED failed

\* Where run() is after the inner loop over n assignments has ended at HIT h.
AfterHit(h) == IF h < Len(hits) THEN "for_hit" ELSE "sleep"

\* Lines 77-80: the assignments of the next HIT.
ListAssignments ==
    /\ pc = "for_hit"
    /\ LET resp == list_assignments_for_hit(hits[hit_idx].HITId)
       IN  /\ assignments' = resp
           /\ asg_idx' = 1
           /\ pc' = IF Len(resp) > 0 THEN "for_assignment" ELSE AfterHit(hit_idx)
           /\ hit_idx' = IF Len(resp) > 0 THEN hit_idx ELSE hit_idx + 1
    /\ listCalls' = listCalls + 1
    /\ UNCHANGED <<marketVars, configVars, probeVars>>
    /\ UNCHANGED <<kwargs, worker_ids, coll, init_blacklisted_workers,
                   blacklisted_workers, hits, worker_counter>>
    /\ UNCHANGED <<cycle, grantCalls, warned, holdersAtStart, lastFetch,
                   prevFetch, nFetches, grantSinceLast, grantBetween,
                   everGranted>>
    /\ UNCHANGED hits_kwargs
    /\ UNCHANGED failed

\* worker_counter[worker_id] >= self.max_hits and worker_id not in blacklisted_workers
OverThresholdOnly(count, worker_id, blacklisted) == count >= max_hits
StrictlyOver(count, worker_id, blacklisted) ==
    count > max_hits /\ worker_id \notin blacklisted
NotBlacklistedOnly(count, worker_id, blacklisted) == worker_id \notin blacklisted
MustBlacklist(count, worker_id, blacklisted) ==
    count >= max_hits /\ worker_id \notin blacklisted

\* Lines 82-93: one assignment.
ProcessAssignment ==
    /\ pc = "for_assignment"
    /\ LET worker_id == assignments[asg_idx].WorkerId
           count == worker_counter[worker_id] + 1
           last == asg_idx = Len(assignments)
       IN  /\ worker_counter' = [worker_counter EXCEPT ![worker_id] = count]
           /\ IF MustBlacklist(count, worker_id, blacklisted_workers)
              THEN /\ blacklisted_workers' = blacklisted_workers \cup {worker_id}
                   /\ qualified' = associate_qualification_with_worker(worker_id)
                   /\ grantCalls' = [grantCalls EXCEPT ![worker_id] = @ + 1]
                   /\ grantSinceLast' = TRUE
              ELSE UNCHANGED <<blacklisted_workers, qualified, grantCalls,
                               grantSinceLast>>
           /\ asg_idx' = asg_idx + 1
           /\ pc' = IF last THEN AfterHit(hit_idx) ELSE "for_assignment"
           /\ hit_idx' = IF last THEN hit_idx + 1 ELSE hit_idx
    /\ UNCHANGED <<hitList, assignmentsOf, pageSize, hitTrailing, qualTrailing>>
    /\ UNCHANGED <<configVars, probeVars>>
    /\ UNCHANGED <<kwargs, worker_ids, coll, init_blacklisted_workers, hits,
                   assignments>>
    /\ UNCHANGED <<cycle, listCalls, warned, holdersAtStart, lastFetch,
                   prevFetch, nFetches, grantBetween, everGranted>>
    /\ UNCHANGED hits_kwargs
    /\ UNCHANGED failed

\* A run() that returns after its first pass instead of looping.
SleepAndReturn ==
    /\ pc = "sleep"
    /\ pc' = "done"
    /\ UNCHANGED <<marketVars, configVars, probeVars, obsVars>>
    /\ UNCHANGED <<kwargs, hits_kwargs, worker_ids, coll, init_blacklisted_workers,
                   blacklisted_workers, hits, worker_counter, hit_idx,
                   assignments, asg_idx>>

\* Line 94, and line 69 enters the fetch of the next cycle.
Sleep ==
    /\ pc = "sleep"
    /\ pc' = "cycle_fetch"
    /\ kwargs' = NewKwargs
    /\ worker_ids' = NewWorkerIds
    /\ CycleBegins
    /\ UNCHANGED <<marketVars, configVars, probeVars>>
    /\ UNCHANGED <<coll, init_blacklisted_workers, blacklisted_workers, hits,
                   worker_counter, hit_idx, assignments, asg_idx>>
    /\ UNCHANGED <<lastFetch, prevFetch, nFetches, grantSinceLast, grantBetween>>
    /\ UNCHANGED hits_kwargs
    /\ UNCHANGED failed

(***************************************************************************)
(* The marketplace's side: a call of the client raises (network or API     *)
(* failure), and a requester revokes a qualification between two cycles.   *)
(***************************************************************************)
\* A handler that catches the error, so that the loop sleeps and polls again.
CallFailsThenSleeps ==
    /\ pc \in {"init_fetch", "cycle_fetch", "fetch_hits", "for_hit"}
    /\ pc' = "sleep"
    /\ failed' = TRUE
    /\ UNCHANGED <<marketVars, configVars, probeVars>>
    /\ UNCHANGED <<kwargs, hits_kwargs, worker_ids, coll, init_blacklisted_workers,
                   blacklisted_workers, hits, worker_counter, hit_idx,
                   assignments, asg_idx>>
    /\ UNCHANGED <<cycle, grantCalls, listCalls, warned, holdersAtStart, lastFetch,
                   prevFetch, nFetches, grantSinceLast, grantBetween,
                   everGranted>>

\* list_workers_with_qualification_type (lines 59, 69), list_hits (line 70) or
\* list_assignments_for_hit (line 78) raises: no try statement encloses it.
CallFails ==
    /\ pc \in {"init_fetch", "cycle_fetch", "fetch_hits", "for_hit"}
    /\ pc' = "crashed"
    /\ failed' = TRUE
    /\ UNCHANGED <<marketVars, configVars, probeVars>>
    /\ UNCHANGED <<kwargs, hits_kwargs, worker_ids, coll, init_blacklisted_workers,
                   blacklisted_workers, hits, worker_counter, hit_idx,
                   assignments, asg_idx>>
    /\ UNCHANGED <<cycle, grantCalls, listCalls, warned, holdersAtStart, lastFetch,
                   prevFetch, nFetches, grantSinceLast, grantBetween,
                   everGranted>>

\* Lines 82-92 when associate_qualification_with_worker raises: the counter
\* and the local blacklist are already updated, the qualification is not
\* granted.
GrantFails ==
    /\ pc = "for_assignment"
    /\ LET worker_id == assignments[asg_idx].WorkerId
           count == worker_counter[worker_id] + 1
       IN  /\ MustBlacklist(count, worker_id, blacklisted_workers)
           /\ worker_counter' = [worker_counter EXCEPT ![worker_id] = count]
           /\ blacklisted_workers' = blacklisted_workers \cup {worker_id}
           /\ grantCalls' = [grantCalls EXCEPT ![worker_id] = @ + 1]
    /\ pc' = "crashed"
    /\ failed' = TRUE
    /\ UNCHANGED <<marketVars, configVars, probeVars>>
    /\ UNCHANGED <<kwargs, hits_kwargs, worker_ids, coll, init_blacklisted_workers,
                   hits, hit_idx, assignments, asg_idx>>
    /\ UNCHANGED <<cycle, listCalls, warned, holdersAtStart, lastFetch, prevFetch,
                   nFetches, grantSinceLast, grantBetween, everGranted>>

\* While the monitor sleeps, the qualification of a worker is revoked.
ExternalRevoke ==
    /\ pc = "sleep"
    /\ \E w \in ToSet(qualified) :
          qualified' = SelectSeq(qualified, LAMBDA x : x # w)
    /\ UNCHANGED <<hitList, assignmentsOf, pageSize, hitTrailing, qualTrailing>>
    /\ UNCHANGED <<configVars, runVars, obsVars, probeVars>>

Next ==
    \/ FetchWorkersPage
    \/ FetchWorkersReturnInit
    \/ FetchWorkersReturnCycle
    \/ FetchHitsPage
    \/ FetchHitsRaise
    \/ FetchHitsReturn
    \/ CheckHits
    \/ ListAssignments
    \/ ProcessAssignment
    \/ Sleep

Spec == Init /\ [][Next]_vars

\* The accounts of Init; of those with MaxHITs HITs, the ones whose listings
\* end with an empty page, one result per page, nobody qualified, max_hits 1.
InitFew ==
    /\ Init
    /\ \/ Len(hitList) < MaxHITs
       \/ /\ pageSize = 1
          /\ hitTrailing
          /\ qualTrailing
          /\ qualified = <<>>
          /\ max_hits = 1

NextEnv ==
    \/ Next
    \/ CallFails
    \/ GrantFails
    \/ ExternalRevoke

SpecEnv == InitFew /\ [][NextEnv]_vars

(***************************************************************************)
(* A single call batch_id_match(hit, batch_id) on an arbitrary annotation. *)
(***************************************************************************)
Alphabet == {BatchIdLit, "0", "1", "2", ";"}
Annotations == UNION {[1..n -> Alphabet] : n \in 0..MaxAnnLen}
BatchIds == {int(ds) : ds \in UNION {[1..n -> {"0", "1", "2"}] : n \in 1..2}}

InitBatch ==
    /\ probe_hit \in {[RequesterAnnotation |-> a] : a \in Annotations}
    /\ probe_ret = "idle"
    /\ batch_id \in BatchIds
    /\ max_hits = 1
    /\ hitList = <<>>
    /\ assignmentsOf = <<>>
    /\ qualified = <<>>
    /\ pageSize = 1
    /\ hitTrailing = FALSE
    /\ qualTrailing = FALSE
    /\ InitRun

BatchIdMatchReturns ==
    /\ probe_ret = "idle"
    /\ ~batch_id_match_raises(probe_hit)
    /\ probe_ret' = IF batch_id_match(probe_hit, batch_id) THEN "True" ELSE "False"
    /\ UNCHANGED <<marketVars, configVars, runVars, obsVars, probe_hit>>

BatchIdMatchRaises ==
    /\ probe_ret = "idle"
    /\ batch_id_match_raises(probe_hit)
    /\ probe_ret' = "AttributeError"
    /\ UNCHANGED <<marketVars, configVars, runVars, obsVars, probe_hit>>

NextBatch == BatchIdMatchReturns \/ BatchIdMatchRaises

SpecBatch == InitBatch /\ [][NextBatch]_vars

(***************************************************************************)
(* What the properties speak about, stated without the code's algorithms.  *)
(***************************************************************************)
\* The HIT's annotation has a "BatchId:<digits>" token at position i.
TokenAt(ann, i) ==
    i \in 1..(Len(ann) - 1) /\ ann[i] = BatchIdLit /\ ann[i + 1] \in Digit

\* The last digit of the token at position i.
TokenEnd(ann, i) ==
    CHOOSE e \in (i + 1)..Len(ann) :
        /\ \A k \in (i + 1)..e : ann[k] \in Digit
        /\ e = Len(ann) \/ ann[e + 1] \notin Digit

RECURSIVE Pow10(_)
Pow10(n) == IF n = 0 THEN 1 ELSE 10 * Pow10(n - 1)

RECURSIVE PlaceSum(_, _, _)
PlaceSum(ann, from, to) ==
    IF from > to THEN 0
    ELSE DigitVal(ann[from]) * Pow10(to - from) + PlaceSum(ann, from + 1, to)

\* The number the token at position i writes.
TokenValue(ann, i) == PlaceSum(ann, i + 1, TokenEnd(ann, i))

Tokens(ann) == {i \in 1..Len(ann) : TokenAt(ann, i)}
FirstToken(ann) == CHOOSE i \in Tokens(ann) : \A j \in Tokens(ann) : i <= j

\* The HIT belongs to the tracked batch.
InBatch(hit) ==
    /\ Tokens(hit.RequesterAnnotation) # {}
    /\ TokenValue(hit.RequesterAnnotation, FirstToken(hit.RequesterAnnotation)) = batch_id

Malformed(hit) == Tokens(hit.RequesterAnnotation) = {}

\* The HITs of the batch over all pages of the listing, in page order.
AllBatchHits == SelectSeq(hitList, InBatch)

\* The identifiers of the HITs of the batch.
BatchHitIds ==
    {hitList[k].HITId : k \in {k \in 1..Len(hitList) : InBatch(hitList[k])}}

\* The worker's Submitted/Approved assignments of one HIT.
AssignmentCount(h, w) ==
    Cardinality({j \in 1..Len(assignmentsOf[h]) : assignmentsOf[h][j].WorkerId = w})

\* The worker's assignments over the first k HITs of the listing that are in ids.
RECURSIVE CountUpTo(_, _, _)
CountUpTo(ids, w, k) ==
    IF k = 0 THEN 0
    ELSE CountUpTo(ids, w, k - 1) +
         (IF hitList[k].HITId \in ids THEN AssignmentCount(hitList[k].HITId, w) ELSE 0)

\* The worker's Submitted/Approved assignments over all HITs of the batch.
SnapshotCountIn(ids, w) == CountUpTo(ids, w, Len(hitList))
SnapshotCount(w) == SnapshotCountIn(BatchHitIds, w)

\* run() has the result of fetch_and_filter_hits of this cycle.
HitsFetched == pc \in {"check_hits", "for_hit", "for_assignment", "sleep"}

(***************************************************************************)
(* C1: fetch_and_filter_hits returns, in page order, the HITs of all pages *)
(* of the listing (the last page, which has no NextToken, included) for    *)
(* which the batch filter is true.                                         *)
(***************************************************************************)
C1_AllPagesFiltered == HitsFetched => hits = AllBatchHits

(***************************************************************************)
(* C2: at the end of a cycle, a worker who did not hold the qualification  *)
(* when the cycle began has been granted it exactly once if the worker's   *)
(* assignments over the HITs of the batch are at least max_hits, and not   *)
(* at all if they are fewer.                                               *)
(***************************************************************************)
C2_GrantedIffOverThreshold ==
    pc = "sleep" =>
        \A w \in Workers \ holdersAtStart :
            /\ SnapshotCount(w) >= max_hits => grantCalls[w] = 1
            /\ SnapshotCount(w) < max_hits => grantCalls[w] = 0

(***************************************************************************)
(* C3: a worker who holds the qualification when a cycle begins is not     *)
(* granted it during that cycle, on whatever page of the listing of the    *)
(* holders the worker stands.                                              *)
(***************************************************************************)
C3_HolderNotGrantedAgain == \A w \in holdersAtStart : grantCalls[w] = 0

(***************************************************************************)
(* C4: within one cycle a worker is granted the qualification at most      *)
(* once, also when the tally keeps rising past max_hits.                   *)
(***************************************************************************)
C4_AtMostOneGrantPerCycle == \A w \in Workers : grantCalls[w] <= 1

C4_Witness ==
    \E w \in Workers :
        /\ grantCalls[w] = 1
        /\ worker_counter[w] > max_hits
        /\ hit_idx > 1

(***************************************************************************)
(* C5: fetch_workers_with_qualification returns the workers of all pages   *)
(* of the listing of the holders (the last page, which has no NextToken,   *)
(* included), in the order fetched.                                        *)
(***************************************************************************)
C5_AllHoldersFetched ==
    (nFetches >= 1 /\ ~grantSinceLast) => lastFetch = qualified

(***************************************************************************)
(* C6: a cycle whose list of HITs of the batch is empty warns, lists no    *)
(* assignments, grants nothing, does not raise, goes to sleep and then     *)
(* begins the next cycle.                                                  *)
(***************************************************************************)
C6_EmptyBatchCycle ==
    /\ []((pc = "sleep" /\ hits = <<>>) =>
              /\ warned
              /\ listCalls = 0
              /\ grantCalls = ZeroCount
              /\ ENABLED Sleep)
    /\ [][/\ (pc = "check_hits" /\ hits = <<>>) => (pc' = "sleep" /\ warned')
          /\ (pc = "sleep" /\ hits = <<>>) =>
                (pc' = "cycle_fetch" /\ cycle' = Min(cycle + 1, MaxCycles))]_vars

C6_Witness ==
    /\ cycle = 2
    /\ pc = "cycle_fetch"
    /\ hits = <<>>
    /\ hitList # <<>>
    /\ listCalls = 0

(***************************************************************************)
(* C7 as stated: for an annotation that contains a token "BatchId:<N>",    *)
(* batch_id_match is true for N and false for every other batch id.        *)
(***************************************************************************)
C7_AnyTokenDecides ==
    probe_ret # "idle" =>
        \A i \in Tokens(probe_hit.RequesterAnnotation) :
            /\ probe_ret \in {"True", "False"}
            /\ probe_ret = "True" <=>
                   batch_id = TokenValue(probe_hit.RequesterAnnotation, i)

(***************************************************************************)
(* C7, amended: for an annotation whose first (leftmost) token is          *)
(* "BatchId:<N>", batch_id_match is true for N and false for every other   *)
(* batch id; the digits are read as a decimal number.                      *)
(***************************************************************************)
C7_FirstTokenDecides ==
    (probe_ret # "idle" /\ Tokens(probe_hit.RequesterAnnotation) # {}) =>
        /\ probe_ret \in {"True", "False"}
        /\ probe_ret = "True" <=>
               batch_id = TokenValue(probe_hit.RequesterAnnotation,
                                     FirstToken(probe_hit.RequesterAnnotation))

C7_Witness ==
    /\ probe_ret = "True"
    /\ batch_id = 12
    /\ probe_hit.RequesterAnnotation = <<";", BatchIdLit, "1", "2">>

(***************************************************************************)
(* C8: if a HIT on any page of the listing (the last included) has an      *)
(* annotation without a "BatchId:<digits>" token, the monitor terminates   *)
(* in that cycle, and no grant is issued in it.                            *)
(***************************************************************************)
C8_MalformedIsFatal ==
    /\ HitsFetched => \A i \in 1..Len(hitList) : ~Malformed(hitList[i])
    /\ pc = "crashed" => grantCalls = ZeroCount

(***************************************************************************)
(* C9: two calls of fetch_workers_with_qualification with no grant between *)
(* them return the same set of workers, and the call changes nothing in    *)
(* the marketplace.                                                        *)
(***************************************************************************)
C9_FetchIdempotent ==
    /\ []((nFetches = 2 /\ ~grantBetween) => ToSet(prevFetch) = ToSet(lastFetch))
    /\ [][(FetchWorkersPage \/ FetchWorkersReturnInit \/ FetchWorkersReturnCycle)
            => UNCHANGED marketVars]_vars

C9_Witness ==
    /\ nFetches = 2
    /\ ~grantBetween
    /\ Len(lastFetch) = 2
    /\ cycle = 2

(***************************************************************************)
(* C10: the tally starts empty in every cycle: in no cycle does a worker's *)
(* count exceed the worker's assignments in that cycle's snapshot, and a   *)
(* worker whose assignments stay below max_hits is never granted the       *)
(* qualification, however many cycles add up.                              *)
(***************************************************************************)
C10_TallyPerCycle ==
    LET ids == BatchHitIds
    IN  \A w \in Workers :
            /\ worker_counter[w] = 0 \/ worker_counter[w] <= SnapshotCountIn(ids, w)
            /\ grantCalls[w] = 0 \/ SnapshotCountIn(ids, w) >= max_hits

C10_Witness ==
    \E w \in Workers :
        /\ cycle = 2
        /\ pc = "sleep"
        /\ worker_counter[w] = SnapshotCount(w)
        /\ SnapshotCount(w) < max_hits
        /\ 2 * SnapshotCount(w) >= max_hits
        /\ grantCalls[w] = 0

(***************************************************************************)
(* The monitor is one thread that runs on whenever it can take a step: no  *)
(* call blocks for ever and time.sleep returns.                            *)
(***************************************************************************)
SpecLive == InitFew /\ [][Next]_vars /\ WF_vars(Next)

(***************************************************************************)
(* C11: when no annotation is malformed (and no call fails), the loop has  *)
(* no terminal state: the monitor never stops, every cycle reaches its     *)
(* sleep, and after every sleep a further cycle begins.                    *)
(***************************************************************************)
C11_LoopNeverEnds ==
    (\A i \in 1..Len(hitList) : ~Malformed(hitList[i])) =>
        /\ [](pc # "crashed" /\ ENABLED Next)
        /\ []<>(pc = "sleep")
        /\ []<><<Sleep>>_vars

C11_Witness ==
    /\ cycle = 2
    /\ pc = "cycle_fetch"
    /\ Len(hits) = 2
    /\ \E w \in Workers : worker_counter[w] >= max_hits

(***************************************************************************)
(* C12: the blacklist of a cycle is what the marketplace lists when the    *)
(* cycle begins, extended by the grants of that cycle only; nothing is     *)
(* remembered from earlier cycles or from the startup fetch.  A worker     *)
(* granted in an earlier cycle whose qualification was revoked before this *)
(* cycle began is granted again in this cycle.                             *)
(***************************************************************************)
C12_BlacklistNotCached ==
    /\ pc \in {"fetch_hits", "check_hits", "for_hit", "for_assignment", "sleep"} =>
           blacklisted_workers \subseteq
               holdersAtStart \cup {w \in Workers : grantCalls[w] > 0}
    /\ pc = "sleep" => \A w \in everGranted \ holdersAtStart : grantCalls[w] = 1

C12_Witness ==
    /\ pc = "sleep"
    /\ \E w \in everGranted \ holdersAtStart :
          /\ grantCalls[w] = 1
          /\ w \in ToSet(init_blacklisted_workers)
          /\ w \in ToSet(qualified)

(***************************************************************************)
(* C13: a marketplace call that fails is not retried: the monitor has      *)
(* terminated, and from then on it issues no call and no grant (it takes   *)
(* no step at all).                                                        *)
(***************************************************************************)
C13_FailureIsFatal ==
    /\ [](failed => pc = "crashed")
    /\ [][pc = "crashed" => UNCHANGED <<marketVars, runVars, obsVars>>]_vars

C13_Witness ==
    /\ failed
    /\ pc = "crashed"
    /\ cycle = 2
    /\ everGranted # {}
    /\ \E w \in Workers : grantCalls[w] = 1 /\ w \notin ToSet(qualified)

(***************************************************************************)
(* C14: every grant is issued in the step that handles the assignment      *)
(* which raises the worker's tally to exactly max_hits.                    *)
(***************************************************************************)
C14_GrantAtExactlyMaxHits ==
    [][\A w \in Workers :
          grantCalls'[w] > grantCalls[w] =>
              /\ pc = "for_assignment"
              /\ assignments[asg_idx].WorkerId = w
              /\ worker_counter[w] = max_hits - 1
              /\ worker_counter'[w] = max_hits]_vars

C14_Witness ==
    \E w \in Workers :
        /\ pc = "for_assignment"
        /\ max_hits = 2
        /\ grantCalls[w] = 1
        /\ worker_counter[w] = max_hits
        /\ assignments[asg_idx - 1].WorkerId = w

(***************************************************************************)
(* C15: when no qualification is revoked, a worker granted in some cycle   *)
(* is not granted again in a later cycle.                                  *)
(***************************************************************************)
C15_GrantedOnceOverall == \A w \in everGranted : grantCalls[w] = 0

(***************************************************************************)
(* C16: a step of the monitor leaves the HITs, the assignments and the     *)
(* listings' layout as they are, removes no holder of the qualification,   *)
(* and adds only a worker whose tally of the cycle is at least max_hits.   *)
(***************************************************************************)
C16_OnlyWriteIsTheGrant ==
    [][(Next \/ CallFails \/ GrantFails) =>
          /\ UNCHANGED <<hitList, assignmentsOf, pageSize, hitTrailing, qualTrailing>>
          /\ ToSet(qualified) \subseteq ToSet(qualified')
          /\ \A w \in ToSet(qualified') \ ToSet(qualified) :
                worker_counter'[w] >= max_hits]_vars

C16_Witness ==
    \E w \in ToSet(qualified) \ holdersAtStart :
        /\ grantCalls[w] = 1
        /\ worker_counter[w] >= max_hits
        /\ holdersAtStart # {}
        /\ holdersAtStart \subseteq ToSet(qualified)

=============================================================================
